---- MODULE Spec2Model ----
(***************************************************************************)
(* A model of Source/Runtime/Runtime.cpp of WAVM: the invocation bridge    *)
(* (invokeFunction), the call-stack describer (describeCallStack), the     *)
(* exception factory (causeException), the type-conformance checker (isA)  *)
(* and the global cell (createGlobal / getGlobalValue / setGlobalValue).   *)
(***************************************************************************)
EXTENDS Integers, Sequences, FiniteSets, TLC

VARIABLES
    pc,           \* per invoking thread: the position inside invokeFunction
    function,     \* per thread: the FunctionInstance* argument
    parameters,   \* per thread: the const std::vector<Value>& argument
    locals,       \* per activation: the automatic variables of invokeFunction
    outcome,      \* per thread: how the invocation ended
    obs,          \* per thread: what the collaborators saw and supplied
    global,       \* the GlobalInstance of the global cell
    gcall,        \* the last global-cell operation and what it returned
    isaCall,      \* the isA call: object, expected type, returned bool
    dcCall        \* the describeCallStack call: stack, returned strings

vars == <<pc, function, parameters, locals, outcome, obs, global, gcall, isaCall, dcCall>>
invokeVars == <<pc, function, parameters, locals, outcome, obs>>

(***************************************************************************)
(* Bounds of the model.                                                    *)
(***************************************************************************)
\* The longest argument list passed to invokeFunction.
MaxArgs == 2
\* The largest raw payload of a Value.
MaxPayload == 1
\* The deepest fault-time call stack and the deepest caller baseline stack.
MaxTrapFrames == 3
MaxCallerFrames == 2
\* The deepest call stack given to describeCallStack on its own.
MaxFrames == 3
\* The largest minimum or maximum of a table's or memory's size bound.
MaxSize == 2
\* The number of setGlobalValue calls on the global.
MaxSets == 2

RECURSIVE SeqsOfLen(_, _)
SeqsOfLen(S, n) ==
    IF n = 0 THEN {<<>>}
    ELSE {Append(s, x) : s \in SeqsOfLen(S, n - 1), x \in S}

SeqsUpTo(S, n) == UNION {SeqsOfLen(S, k) : k \in 0..n}

(***************************************************************************)
(* The value and type model.                                               *)
(***************************************************************************)
ValueTypes == {"i32", "i64"}
ResultTypes == {"none"} \cup ValueTypes
Payloads == 0..MaxPayload

\* Value(type, payload): a tag and the 64-bit raw payload.
Value(type, payload) == [type |-> type, i64 |-> payload]
Values == {Value(ty, p) : ty \in ValueTypes, p \in Payloads}

\* The UntaggedValue part of a Value: the tag is dropped.
Untagged(value) == value.i64

FunctionType(ps, ret) == [parameters |-> ps, ret |-> ret]

\* The function instances the threads hold handles to.
FunctionInstance(ps, ret, native) == [type |-> FunctionType(ps, ret), nativeFunction |-> native]
Functions ==
    { FunctionInstance(<<>>, "none", 0),
      FunctionInstance(<<>>, "i32", 1),
      FunctionInstance(<<"i32">>, "i32", 1),
      FunctionInstance(<<"i64">>, "none", 0),
      FunctionInstance(<<"i32", "i64">>, "i64", 0) }
ConcFunctions ==
    { FunctionInstance(<<"i32">>, "i32", 1),
      FunctionInstance(<<"i64">>, "none", 0) }

ArgLists == SeqsUpTo(Values, MaxArgs)
ConcArgLists == SeqsUpTo(Values, 1)

\* Result(): the empty result.
EmptyResult == [type |-> "none", i64 |-> 0]

getArity(ret) == IF ret = "none" THEN 0 ELSE 1

(***************************************************************************)
(* Instruction pointers and their descriptions.  IP 1 is known to the JIT  *)
(* only, 2 to the platform only, 3 to both, 4 to neither.                  *)
(***************************************************************************)
IPs == {1, 2, 3, 4}
StackIPs == {1, 4}

LLVMJITKnows(ip) == ip \in {1, 3}
PlatformKnows(ip) == ip \in {2, 3}
LLVMJITDescription(ip) == IF ip = 1 THEN "wasm!f1+0" ELSE "wasm!f3+0"
PlatformDescription(ip) == IF ip = 2 THEN "host!g2+0" ELSE "host!g3+0"

UnknownFunction == "<unknown function>"

\* A faulty variant of describeFrame: the platform is asked before the JIT.
describeFramePlatformFirst(ip) ==
    IF PlatformKnows(ip) THEN PlatformDescription(ip)
    ELSE IF LLVMJITKnows(ip) THEN LLVMJITDescription(ip)
    ELSE UnknownFunction

\* The body of the loop of describeCallStack: one frame's description.
describeFrame(ip) ==
    IF LLVMJITKnows(ip) THEN LLVMJITDescription(ip)
    ELSE IF PlatformKnows(ip) THEN PlatformDescription(ip)
    ELSE UnknownFunction

describeCallStack(callStack) ==
    [i \in 1..Len(callStack) |-> describeFrame(callStack[i])]

(***************************************************************************)
(* Exceptions.  callStack is the description the Exception carries;        *)
(* captured tells whether it was obtained by describing a captured call    *)
(* stack, factory whether causeException built it.                         *)
(***************************************************************************)
\* Exception {cause}: the callStack member is left value-initialised.
ExceptionOfCause(cause) ==
    [cause |-> cause, callStack |-> <<>>, captured |-> FALSE, factory |-> FALSE]

\* Exception {cause, callStackDescription}
ExceptionOf(cause, description) ==
    [cause |-> cause, callStack |-> description, captured |-> TRUE, factory |-> FALSE]

\* causeException(cause), called where Platform::captureCallStack() yields callStack.
causeException(cause, callStack) ==
    [cause |-> cause, callStack |-> describeCallStack(callStack),
     captured |-> TRUE, factory |-> TRUE]

NoException == ExceptionOfCause("none")

\* How an invocation ends.
Pending == [kind |-> "pending", exception |-> NoException, result |-> EmptyResult, log |-> <<>>]
Returned(r) == [kind |-> "returned", exception |-> NoException, result |-> r, log |-> <<>>]
Thrown(e) == [kind |-> "exception", exception |-> e, result |-> EmptyResult, log |-> <<>>]
Terminated(l) == [kind |-> "terminated", exception |-> NoException, result |-> EmptyResult, log |-> l]

(***************************************************************************)
(* The collaborators of invokeFunction.                                    *)
(***************************************************************************)
Threads == {1, 2}

\* Addresses a fault can report: 1 lies in a table's reserved pages, 2 in a
\* memory's, 3 in both, 4 in neither.
Addresses == {1, 2, 3, 4}
isAddressOwnedByTable(address) == address \in {1, 3}
isAddressOwnedByMemory(address) == address \in {2, 3}

\* What Platform::catchHardwareTraps reports of a fault.
Fault(type, operand, stack) == [type |-> type, operand |-> operand, stack |-> stack]
NoFault == Fault("none", 0, <<>>)
Faults ==
    {Fault("accessViolation", a, s) : a \in Addresses, s \in SeqsUpTo(StackIPs, MaxTrapFrames)}
    \cup {Fault(ty, 0, s) : ty \in {"stackOverflow", "intDivideByZeroOrOverflow"},
                            s \in SeqsUpTo(StackIPs, MaxTrapFrames)}
ConcFaults ==
    {Fault("accessViolation", a, s) : a \in {1, 2}, s \in {<<1>>, <<4, 1>>}}
    \cup {Fault("stackOverflow", 0, <<1, 1>>)}

\* What Platform::captureCallStack returns inside the fault-catching region.
CallerStacks == SeqsUpTo(StackIPs, MaxCallerFrames)
ConcCallerStacks == {<<>>, <<1>>}

\* Core::errorf ends the process.
errorfReturns == FALSE

\* The content of memory obtained from alloca and not yet written.
Uninit == -1

RECURSIVE SumSlots(_, _)
SumSlots(args, n) == IF n = 0 THEN 0 ELSE args[n - 1] + SumSlots(args, n - 1)

\* The payload the native function leaves for the arguments the thunk unpacked.
NativeResult(f, args) ==
    (f.nativeFunction + SumSlots(args, Len(f.type.parameters))) % (MaxPayload + 1)

(***************************************************************************)
(* invokeFunction, one activation per thread.                              *)
(***************************************************************************)
\* A faulty variant of Frame: the automatic variables are static, one copy
\* for all threads.
FrameShared(t) == 1

\* The activation record holding the automatic variables of thread t's call.
Frame(t) == t

NoLocals ==
    [thunkMemory |-> <<>>, parameterIndex |-> 0, callerStack |-> <<>>,
     trapCallStack |-> <<>>, trapType |-> "none", trapOperand |-> 0,
     result |-> EmptyResult]

NoObs ==
    [nativeCalls |-> 0, thunkArgs |-> <<>>, thunkLeft |-> Uninit, slots |-> 0,
     accessed |-> {}, resultSlotRead |-> FALSE, callerIn |-> <<>>, faultIn |-> NoFault]

\* A faulty variant of ArityMismatch: only too few arguments are refused.
ArityMismatchShortOnly(ps, functionType) == Len(ps) < Len(functionType.parameters)

\* parameters.size() != functionType->parameters.size()
ArityMismatch(ps, functionType) == Len(ps) # Len(functionType.parameters)

\* A faulty variant of SlotCount: no slot is reserved for the result.
SlotCountNoResult(functionType) == Len(functionType.parameters)

\* The number of uint64 slots alloca'd for the thunk memory block.
SlotCount(functionType) == Len(functionType.parameters) + getArity(functionType.ret)

ReadSlot(buffer, i) == IF i \in DOMAIN buffer THEN buffer[i] ELSE Uninit
WriteSlot(buffer, i, v) == IF i \in DOMAIN buffer THEN [buffer EXCEPT ![i] = v] ELSE buffer

\* Truncate the stack frame to the native code invoking the function.
Truncate(trapStack, callerStack) ==
    IF Len(trapStack) >= Len(callerStack) + 1
    THEN SubSeq(trapStack, 1, Len(trapStack) - Len(callerStack) - 1)
    ELSE trapStack

AccessViolationLog(description) ==
    <<"Access violation outside of table or memory reserved addresses. Call stack:">>
    \o description

\* A faulty variant of TrapOutcome: the memory test precedes the table test.
TrapOutcomeMemoryFirst(trapType, trapOperand, description) ==
    IF trapType = "accessViolation"
    THEN IF isAddressOwnedByMemory(trapOperand)
         THEN Thrown(ExceptionOf("accessViolation", description))
         ELSE IF isAddressOwnedByTable(trapOperand)
         THEN Thrown(ExceptionOf("undefinedTableElement", description))
         ELSE Terminated(AccessViolationLog(description))
    ELSE IF trapType = "stackOverflow"
    THEN Thrown(ExceptionOf("stackOverflow", description))
    ELSE Thrown(ExceptionOf("integerDivideByZeroOrIntegerOverflow", description))

\* A faulty variant of TrapOutcome: an unowned address is raised as accessViolation.
TrapOutcomeNoAbort(trapType, trapOperand, description) ==
    IF trapType = "accessViolation"
    THEN IF isAddressOwnedByTable(trapOperand)
         THEN Thrown(ExceptionOf("undefinedTableElement", description))
         ELSE Thrown(ExceptionOf("accessViolation", description))
    ELSE IF trapType = "stackOverflow"
    THEN Thrown(ExceptionOf("stackOverflow", description))
    ELSE Thrown(ExceptionOf("integerDivideByZeroOrIntegerOverflow", description))

\* switch(trapType): the cause raised for a fault, or the process's end.
TrapOutcome(trapType, trapOperand, description) ==
    IF trapType = "accessViolation"
    THEN IF isAddressOwnedByTable(trapOperand)
         THEN Thrown(ExceptionOf("undefinedTableElement", description))
         ELSE IF isAddressOwnedByMemory(trapOperand)
         THEN Thrown(ExceptionOf("accessViolation", description))
         ELSE IF errorfReturns
         THEN Thrown(ExceptionOf("stackOverflow", description))
         ELSE Terminated(AccessViolationLog(description))
    ELSE IF trapType = "stackOverflow"
    THEN Thrown(ExceptionOf("stackOverflow", description))
    ELSE Thrown(ExceptionOf("integerDivideByZeroOrIntegerOverflow", description))

\* A thread calls invokeFunction(function, parameters).
InvokeFunction(t, f, ps) ==
    /\ pc[t] = "idle"
    /\ pc' = [pc EXCEPT ![t] = "checkArity"]
    /\ function' = [function EXCEPT ![t] = f]
    /\ parameters' = [parameters EXCEPT ![t] = ps]
    /\ UNCHANGED <<locals, outcome, obs, global, gcall, isaCall, dcCall>>

\* The arity check, then the alloca of the thunk memory block.
CheckArity(t) ==
    /\ pc[t] = "checkArity"
    /\ LET functionType == function[t].type IN
       IF ArityMismatch(parameters[t], functionType)
       THEN /\ outcome' = [outcome EXCEPT ![t] = Thrown(ExceptionOfCause("invokeSignatureMismatch"))]
            /\ pc' = [pc EXCEPT ![t] = "done"]
            /\ UNCHANGED <<locals, obs>>
       ELSE /\ locals' = [locals EXCEPT ![Frame(t)] =
                    [NoLocals EXCEPT !.thunkMemory =
                        [i \in 0..(SlotCount(functionType) - 1) |-> Uninit]]]
            /\ obs' = [obs EXCEPT ![t].slots = SlotCount(functionType)]
            /\ pc' = [pc EXCEPT ![t] = "marshal"]
            /\ UNCHANGED outcome
    /\ UNCHANGED <<function, parameters, global, gcall, isaCall, dcCall>>

\* One turn of the loop that checks a parameter's type and copies its payload.
Marshal(t) ==
    /\ pc[t] = "marshal"
    /\ LET functionType == function[t].type
           l == locals[Frame(t)]
           parameterIndex == l.parameterIndex
       IN
       IF parameterIndex < Len(functionType.parameters)
       THEN IF functionType.parameters[parameterIndex + 1] # parameters[t][parameterIndex + 1].type
            THEN /\ outcome' = [outcome EXCEPT ![t] = Thrown(ExceptionOfCause("invokeSignatureMismatch"))]
                 /\ pc' = [pc EXCEPT ![t] = "done"]
                 /\ UNCHANGED <<locals, obs>>
            ELSE /\ locals' = [locals EXCEPT ![Frame(t)] =
                        [l EXCEPT !.thunkMemory =
                                      WriteSlot(l.thunkMemory, parameterIndex,
                                                parameters[t][parameterIndex + 1].i64),
                                  !.parameterIndex = parameterIndex + 1]]
                 /\ obs' = [obs EXCEPT ![t].accessed = @ \cup {parameterIndex}]
                 /\ UNCHANGED <<pc, outcome>>
       ELSE /\ pc' = [pc EXCEPT ![t] = "capture"]
            /\ UNCHANGED <<locals, outcome, obs>>
    /\ UNCHANGED <<function, parameters, global, gcall, isaCall, dcCall>>

\* Inside the fault-catching region: callerStack = Platform::captureCallStack().
CaptureCallerStack(t, stack) ==
    /\ pc[t] = "capture"
    /\ locals' = [locals EXCEPT ![Frame(t)].callerStack = stack]
    /\ obs' = [obs EXCEPT ![t].callerIn = stack]
    /\ pc' = [pc EXCEPT ![t] = "thunk"]
    /\ UNCHANGED <<function, parameters, outcome, global, gcall, isaCall, dcCall>>

\* The invoke thunk unpacks the parameter slots and calls the native function,
\* which returns: the thunk packs its result, if any, into the result slot.
ThunkReturns(t) ==
    /\ pc[t] = "thunk"
    /\ LET functionType == function[t].type
           n == Len(functionType.parameters)
           l == locals[Frame(t)]
           args == [i \in 0..(n - 1) |-> ReadSlot(l.thunkMemory, i)]
           left == NativeResult(function[t], args)
       IN
       /\ obs' = [obs EXCEPT ![t].nativeCalls = @ + 1,
                             ![t].thunkArgs = args,
                             ![t].thunkLeft = IF functionType.ret # "none" THEN left ELSE Uninit]
       /\ locals' = [locals EXCEPT ![Frame(t)].thunkMemory =
                        IF functionType.ret # "none" THEN WriteSlot(@, n, left) ELSE @]
    /\ pc' = [pc EXCEPT ![t] = "readResult"]
    /\ UNCHANGED <<function, parameters, outcome, global, gcall, isaCall, dcCall>>

\* The native call faults: catchHardwareTraps reports the fault.
ThunkFaults(t, fault) ==
    /\ pc[t] = "thunk"
    /\ LET functionType == function[t].type
           n == Len(functionType.parameters)
           l == locals[Frame(t)]
           args == [i \in 0..(n - 1) |-> ReadSlot(l.thunkMemory, i)]
       IN
       obs' = [obs EXCEPT ![t].nativeCalls = @ + 1,
                          ![t].thunkArgs = args,
                          ![t].faultIn = fault]
    /\ locals' = [locals EXCEPT ![Frame(t)].trapType = fault.type,
                                ![Frame(t)].trapOperand = fault.operand,
                                ![Frame(t)].trapCallStack = fault.stack]
    /\ pc' = [pc EXCEPT ![t] = "trapped"]
    /\ UNCHANGED <<function, parameters, outcome, global, gcall, isaCall, dcCall>>

\* The rest of the region's body and the return of the result.
ReadResult(t) ==
    /\ pc[t] = "readResult"
    /\ LET functionType == function[t].type
           n == Len(functionType.parameters)
           l == locals[Frame(t)]
       IN
       IF functionType.ret # "none"
       THEN LET r == [type |-> functionType.ret, i64 |-> ReadSlot(l.thunkMemory, n)] IN
            /\ locals' = [locals EXCEPT ![Frame(t)].result = r]
            /\ obs' = [obs EXCEPT ![t].accessed = @ \cup {n}, ![t].resultSlotRead = TRUE]
            /\ outcome' = [outcome EXCEPT ![t] = Returned(r)]
       ELSE /\ outcome' = [outcome EXCEPT ![t] = Returned(l.result)]
            /\ UNCHANGED <<locals, obs>>
    /\ pc' = [pc EXCEPT ![t] = "done"]
    /\ UNCHANGED <<function, parameters, global, gcall, isaCall, dcCall>>

\* The fault branch: truncate, describe, classify.
HandleTrap(t) ==
    /\ pc[t] = "trapped"
    /\ LET l == locals[Frame(t)]
           truncated == Truncate(l.trapCallStack, l.callerStack)
           callStackDescription == describeCallStack(truncated)
       IN
       /\ locals' = [locals EXCEPT ![Frame(t)].trapCallStack = truncated]
       /\ outcome' = [outcome EXCEPT ![t] =
                         TrapOutcome(l.trapType, l.trapOperand, callStackDescription)]
    /\ pc' = [pc EXCEPT ![t] = "done"]
    /\ UNCHANGED <<function, parameters, obs, global, gcall, isaCall, dcCall>>

(***************************************************************************)
(* The global cell.                                                        *)
(***************************************************************************)
GlobalType(valueType, isMutable) == [valueType |-> valueType, isMutable |-> isMutable]
GlobalTypes == {GlobalType(ty, m) : ty \in ValueTypes, m \in BOOLEAN}

\* GlobalInstance(type, initialValue): the value member is an UntaggedValue.
GlobalInstance(type, initialValue) ==
    [exists |-> TRUE, type |-> type, value |-> Untagged(initialValue)]

NoGlobal == [exists |-> FALSE, type |-> GlobalType("i32", FALSE), value |-> 0]

\* gcall records the last operation on the cell: its argument, what it
\* returned, the cell before it (before), the Value that was current before
\* it in the caller's terms (previous: the created value or the last one set)
\* and after it (current), whether every call so far kept the preconditions
\* (contract) and the number of sets so far.
NoGCall ==
    [op |-> "none", argument |-> Value("i32", 0), returned |-> Value("i32", 0),
     before |-> NoGlobal, previous |-> Value("i32", 0), current |-> Value("i32", 0),
     contract |-> TRUE, sets |-> 0]

getGlobalValueReturn(g) == Value(g.type.valueType, g.value)

\* A faulty variant of setGlobalValueReturn: the new value is returned.
setGlobalValueReturnNew(g, newValue) == Value(g.type.valueType, Untagged(newValue))

\* const Value previousValue = Value(global->type.valueType,global->value)
setGlobalValueReturn(g, newValue) == Value(g.type.valueType, g.value)

\* global->value = newValue
setGlobalValueStore(g, newValue) == [g EXCEPT !.value = Untagged(newValue)]

\* The two asserts of setGlobalValue.
setGlobalValueAsserts(g, newValue) ==
    /\ newValue.type = g.type.valueType
    /\ g.type.isMutable

CreateGlobal(type, initialValue) ==
    /\ ~global.exists
    /\ global' = GlobalInstance(type, initialValue)
    /\ gcall' = [NoGCall EXCEPT !.op = "create", !.argument = initialValue,
                                !.returned = initialValue, !.before = global,
                                !.previous = initialValue, !.current = initialValue,
                                !.contract = (initialValue.type = type.valueType)]
    /\ UNCHANGED <<invokeVars, isaCall, dcCall>>

GetGlobalValue ==
    /\ global.exists
    /\ gcall.op # "assertFailed"
    /\ gcall' = [gcall EXCEPT !.op = "get", !.argument = gcall.current,
                              !.returned = getGlobalValueReturn(global),
                              !.before = global, !.previous = gcall.current]
    /\ UNCHANGED <<global, invokeVars, isaCall, dcCall>>

\* ndebug: the build compiles the asserts away.
SetGlobalValue(newValue, ndebug) ==
    /\ global.exists
    /\ gcall.op # "assertFailed"
    /\ gcall.sets < MaxSets
    /\ IF ~ndebug /\ ~setGlobalValueAsserts(global, newValue)
       THEN /\ gcall' = [gcall EXCEPT !.op = "assertFailed", !.argument = newValue,
                                      !.before = global, !.previous = gcall.current,
                                      !.contract = FALSE]
            /\ UNCHANGED global
       ELSE /\ global' = setGlobalValueStore(global, newValue)
            /\ gcall' = [gcall EXCEPT !.op = "set", !.argument = newValue,
                                      !.returned = setGlobalValueReturn(global, newValue),
                                      !.before = global, !.previous = gcall.current,
                                      !.current = newValue,
                                      !.contract = (@ /\ setGlobalValueAsserts(global, newValue)),
                                      !.sets = @ + 1]
    /\ UNCHANGED <<invokeVars, isaCall, dcCall>>

(***************************************************************************)
(* isA.                                                                    *)
(***************************************************************************)
ObjectKinds == {"function", "global", "table", "memory"}
ElementTypes == {"anyfunc", "anyref"}
SizeConstraints == [min : 0..MaxSize, max : 0..MaxSize]
TableType(elementType, size) == [elementType |-> elementType, size |-> size]
MemoryType(size) == [size |-> size]
SignatureSet ==
    {FunctionType(<<>>, "none"), FunctionType(<<"i32">>, "i32"), FunctionType(<<"i32">>, "none")}

\* An ObjectType: the kind and the descriptor of each kind (only the kind's own is read).
ObjectType(kind, fn, gl, tb, mem) ==
    [kind |-> kind, function |-> fn, global |-> gl, table |-> tb, memory |-> mem]
DefaultSize == [min |-> 0, max |-> 0]
ObjectTypes ==
    {ObjectType("function", fn, GlobalType("i32", FALSE), TableType("anyfunc", DefaultSize),
                MemoryType(DefaultSize)) : fn \in SignatureSet}
    \cup {ObjectType("global", FunctionType(<<>>, "none"), gl, TableType("anyfunc", DefaultSize),
                     MemoryType(DefaultSize)) : gl \in GlobalTypes}
    \cup {ObjectType("table", FunctionType(<<>>, "none"), GlobalType("i32", FALSE),
                     TableType(el, size), MemoryType(DefaultSize)) :
              el \in ElementTypes, size \in SizeConstraints}
    \cup {ObjectType("memory", FunctionType(<<>>, "none"), GlobalType("i32", FALSE),
                     TableType("anyfunc", DefaultSize), MemoryType(size)) :
              size \in SizeConstraints}

\* An object instance: its kind and its own type.
Objects == ObjectTypes

\* isSubset(super, sub): sub's range lies entirely within super's.
isSubset(super, sub) == sub.min >= super.min /\ sub.max <= super.max

\* A faulty variant of isA: the arguments of isSubset are exchanged.
isASwapped(object, type) ==
    IF type.kind # object.kind THEN FALSE
    ELSE IF type.kind = "function" THEN type.function = object.function
    ELSE IF type.kind = "global" THEN type.global = object.global
    ELSE IF type.kind = "table"
    THEN /\ type.table.elementType = object.table.elementType
         /\ isSubset(object.table.size, type.table.size)
    ELSE isSubset(object.memory.size, type.memory.size)

isA(object, type) ==
    IF type.kind # object.kind THEN FALSE
    ELSE IF type.kind = "function" THEN type.function = object.function
    ELSE IF type.kind = "global" THEN type.global = object.global
    ELSE IF type.kind = "table"
    THEN /\ type.table.elementType = object.table.elementType
         /\ isSubset(type.table.size, object.table.size)
    ELSE isSubset(type.memory.size, object.memory.size)

IsACall(object, type, done, result) ==
    [object |-> object, type |-> type, done |-> done, result |-> result]
NoIsACall ==
    IsACall(CHOOSE o \in Objects : o.kind = "function",
            CHOOSE o \in Objects : o.kind = "function", FALSE, FALSE)

CallIsA ==
    /\ ~isaCall.done
    /\ isaCall' = [isaCall EXCEPT !.done = TRUE, !.result = isA(isaCall.object, isaCall.type)]
    /\ UNCHANGED <<invokeVars, global, gcall, dcCall>>

(***************************************************************************)
(* describeCallStack, called on its own.                                   *)
(***************************************************************************)
CallStacks == SeqsUpTo(IPs, MaxFrames)
NoDcCall == [callStack |-> <<>>, done |-> FALSE, result |-> <<>>]

CallDescribeCallStack ==
    /\ ~dcCall.done
    /\ dcCall' = [dcCall EXCEPT !.done = TRUE, !.result = describeCallStack(dcCall.callStack)]
    /\ UNCHANGED <<invokeVars, global, gcall, isaCall>>

InvokeInit ==
    /\ pc = [t \in Threads |-> "idle"]
    /\ function = [t \in Threads |-> FunctionInstance(<<>>, "none", 0)]
    /\ parameters = [t \in Threads |-> <<>>]
    /\ locals = [t \in Threads |-> NoLocals]
    /\ outcome = [t \in Threads |-> Pending]
    /\ obs = [t \in Threads |-> NoObs]

Init ==
    /\ InvokeInit
    /\ global = NoGlobal
    /\ gcall = NoGCall
    /\ isaCall = NoIsACall
    /\ dcCall = NoDcCall

\* One thread invoking, with every function, argument list, caller stack and fault.
Next ==
    \E t \in {1} :
        \/ \E f \in Functions, ps \in ArgLists : InvokeFunction(t, f, ps)
        \/ CheckArity(t)
        \/ Marshal(t)
        \/ \E stack \in CallerStacks : CaptureCallerStack(t, stack)
        \/ ThunkReturns(t)
        \/ \E fault \in Faults : ThunkFaults(t, fault)
        \/ ReadResult(t)
        \/ HandleTrap(t)

Spec == Init /\ [][Next]_vars

\* Two threads invoking concurrently.
NextConc ==
    \E t \in Threads :
        \/ \E f \in ConcFunctions, ps \in ConcArgLists : InvokeFunction(t, f, ps)
        \/ CheckArity(t)
        \/ Marshal(t)
        \/ \E stack \in ConcCallerStacks : CaptureCallerStack(t, stack)
        \/ ThunkReturns(t)
        \/ \E fault \in ConcFaults : ThunkFaults(t, fault)
        \/ ReadResult(t)
        \/ HandleTrap(t)

SpecConc == Init /\ [][NextConc]_vars

(***************************************************************************)
(* The specifications of the global cell, of isA and of describeCallStack. *)
(***************************************************************************)
NextGlobal ==
    \/ \E type \in GlobalTypes, v \in Values : CreateGlobal(type, v)
    \/ GetGlobalValue
    \/ \E v \in Values, ndebug \in BOOLEAN : SetGlobalValue(v, ndebug)

SpecGlobal == Init /\ [][NextGlobal]_vars

InitIsA ==
    /\ InvokeInit
    /\ global = NoGlobal
    /\ gcall = NoGCall
    /\ isaCall \in {IsACall(o, ty, FALSE, FALSE) : o \in Objects, ty \in ObjectTypes}
    /\ dcCall = NoDcCall

SpecIsA == InitIsA /\ [][CallIsA]_vars

InitDescribe ==
    /\ InvokeInit
    /\ global = NoGlobal
    /\ gcall = NoGCall
    /\ isaCall = NoIsACall
    /\ dcCall \in {[NoDcCall EXCEPT !.callStack = s] : s \in CallStacks}

SpecDescribe == InitDescribe /\ [][CallDescribeCallStack]_vars

(***************************************************************************)
(* The properties.                                                         *)
(***************************************************************************)
Range(s) == {s[i] : i \in 1..Len(s)}

\* An argument list conforms to a signature: same length, same types in order.
Conforms(ps, functionType) ==
    /\ Len(ps) = Len(functionType.parameters)
    /\ \A i \in 1..Len(ps) : ps[i].type = functionType.parameters[i]

Unowned(address) == ~isAddressOwnedByTable(address) /\ ~isAddressOwnedByMemory(address)

\* C1: an argument list that does not conform to the signature (wrong length,
\* or a wrong type at some position) makes invokeFunction raise an Exception
\* of cause invokeSignatureMismatch, and the invoke thunk is never executed
\* in that invocation.
C1_MismatchRaisesBeforeNativeCall ==
    \A t \in Threads :
        (pc[t] # "idle" /\ ~Conforms(parameters[t], function[t].type)) =>
            /\ obs[t].nativeCalls = 0
            /\ pc[t] \in {"checkArity", "marshal", "done"}
            /\ pc[t] = "done" =>
                   /\ outcome[t].kind = "exception"
                   /\ outcome[t].exception.cause = "invokeSignatureMismatch"

C1_Witness ==
    /\ pc[1] = "done"
    /\ Len(parameters[1]) = 2
    /\ function[1].type.parameters = <<"i32", "i64">>
    /\ parameters[1][1].type = "i32"
    /\ parameters[1][2].type = "i32"
    /\ outcome[1].kind = "exception"

\* C2: an illegal memory access at an address owned by neither a table nor a
\* memory ends the invocation in process termination after a diagnostic is
\* logged: no Exception is raised and no Result is returned.
C2_UnownedAccessViolationTerminates ==
    \A t \in Threads :
        (/\ pc[t] = "done"
         /\ obs[t].faultIn.type = "accessViolation"
         /\ Unowned(obs[t].faultIn.operand)) =>
            /\ outcome[t].kind = "terminated"
            /\ Len(outcome[t].log) >= 1
            /\ outcome[t].exception = NoException
            /\ outcome[t].result = EmptyResult

C2_Witness ==
    /\ pc[1] = "done"
    /\ obs[1].faultIn.type = "accessViolation"
    /\ obs[1].faultIn.operand = 4
    /\ Len(obs[1].faultIn.stack) = 3
    /\ outcome[1].kind = "terminated"

\* C3: the cause raised for a fault is decided by the fault kind and the
\* ownership of the faulting address: a table's address gives
\* undefinedTableElement (also when a memory owns it too), a memory's and no
\* table's gives accessViolation, stack exhaustion gives stackOverflow, a
\* division fault gives integerDivideByZeroOrIntegerOverflow; no other cause
\* is raised for a fault.
C3_FaultCause ==
    \A t \in Threads :
        (pc[t] = "done" /\ obs[t].faultIn.type # "none") =>
            LET fault == obs[t].faultIn
                raised == outcome[t].kind = "exception"
                cause == outcome[t].exception.cause
            IN
            /\ (fault.type = "accessViolation" /\ isAddressOwnedByTable(fault.operand)) =>
                   (raised /\ cause = "undefinedTableElement")
            /\ (/\ fault.type = "accessViolation"
                /\ isAddressOwnedByMemory(fault.operand)
                /\ ~isAddressOwnedByTable(fault.operand)) =>
                   (raised /\ cause = "accessViolation")
            /\ fault.type = "stackOverflow" => (raised /\ cause = "stackOverflow")
            /\ fault.type = "intDivideByZeroOrOverflow" =>
                   (raised /\ cause = "integerDivideByZeroOrIntegerOverflow")
            /\ raised => cause \in {"undefinedTableElement", "accessViolation", "stackOverflow",
                                    "integerDivideByZeroOrIntegerOverflow"}

C3_Witness ==
    /\ pc[1] = "done"
    /\ obs[1].faultIn.type = "accessViolation"
    /\ obs[1].faultIn.operand = 3
    /\ outcome[1].kind = "exception"
    /\ outcome[1].exception.cause = "undefinedTableElement"

\* C4: every Exception invokeFunction raises carries a call-stack
\* description obtained by capturing and describing a call stack, and the
\* signature-mismatch failures are raised through causeException.
C4_EveryExceptionCarriesCallStack ==
    \A t \in Threads :
        outcome[t].kind = "exception" =>
            /\ outcome[t].exception.captured
            /\ outcome[t].exception.cause = "invokeSignatureMismatch" =>
                   \E stack \in CallStacks :
                       outcome[t].exception = causeException("invokeSignatureMismatch", stack)

\* The size bound of range `inner` lies entirely within that of `outer`.
Within(inner, outer) == inner.min >= outer.min /\ inner.max <= outer.max

\* C5: isA is true exactly when the object's kind is the expected kind and
\* the kind's rule holds: equal signatures; equal value-type and mutability;
\* equal element types and the object's size bound within the expected one;
\* the object's size bound within the expected one.
C5_IsA ==
    isaCall.done =>
        LET o == isaCall.object
            ty == isaCall.type
        IN
        /\ isaCall.result =
              (/\ o.kind = ty.kind
               /\ o.kind = "function" => o.function = ty.function
               /\ o.kind = "global" =>
                      /\ o.global.valueType = ty.global.valueType
                      /\ o.global.isMutable = ty.global.isMutable
               /\ o.kind = "table" =>
                      /\ o.table.elementType = ty.table.elementType
                      /\ Within(o.table.size, ty.table.size)
               /\ o.kind = "memory" => Within(o.memory.size, ty.memory.size))
        /\ o.kind # ty.kind => ~isaCall.result
        /\ (/\ o.kind = "table"
            /\ ty.kind = "table"
            /\ \/ o.table.size.min < ty.table.size.min
               \/ o.table.size.max > ty.table.size.max) => ~isaCall.result
        /\ (/\ o.kind = "memory"
            /\ ty.kind = "memory"
            /\ \/ o.memory.size.min < ty.memory.size.min
               \/ o.memory.size.max > ty.memory.size.max) => ~isaCall.result

C5_Witness ==
    /\ isaCall.done
    /\ isaCall.result
    /\ isaCall.object.kind = "table"
    /\ isaCall.object.table.size = [min |-> 1, max |-> 1]
    /\ isaCall.type.table.size = [min |-> 0, max |-> 2]

\* C6: while the preconditions are kept (the created value and every value
\* set are of the declared type, sets only on a mutable global),
\* getGlobalValue returns the created value before the first set and
\* otherwise the value of the most recent set, and leaves the cell as it
\* was; setGlobalValue returns the value that was current just before it.
C6_GlobalCell ==
    gcall.contract =>
        /\ gcall.op = "get" => (gcall.returned = gcall.previous /\ global = gcall.before)
        /\ gcall.op = "set" => gcall.returned = gcall.previous

C6_Witness ==
    /\ gcall.op = "get"
    /\ gcall.contract
    /\ gcall.sets = 2
    /\ gcall.returned = Value("i64", 1)
    /\ gcall.before.value = 1

\* What invokeFunction(f, ps) does on its own, when the platform captures
\* callerStack and reports fault.
Alone(f, ps, callerStack, fault) ==
    IF ~Conforms(ps, f.type)
    THEN Thrown(ExceptionOfCause("invokeSignatureMismatch"))
    ELSE IF fault.type = "none"
    THEN IF f.type.ret = "none"
         THEN Returned(EmptyResult)
         ELSE Returned([type |-> f.type.ret,
                        i64 |-> NativeResult(f, [i \in 0..(Len(ps) - 1) |-> ps[i + 1].i64])])
    ELSE TrapOutcome(fault.type, fault.operand,
                     describeCallStack(Truncate(fault.stack, callerStack)))

\* C7: with invocations running concurrently on two threads, every call ends
\* with the Result or Exception it would produce when run alone with the
\* same function, arguments, caller stack and fault.
C7_NoCrossTalk ==
    \A t \in Threads :
        pc[t] = "done" =>
            outcome[t] = Alone(function[t], parameters[t], obs[t].callerIn, obs[t].faultIn)

C7_Witness ==
    /\ pc[1] = "done"
    /\ pc[2] = "done"
    /\ outcome[1].kind = "returned"
    /\ outcome[1].result = Value("i32", 0)
    /\ parameters[1] # parameters[2]
    /\ outcome[2].kind = "exception"
    /\ outcome[2].exception.cause = "undefinedTableElement"
    /\ obs[2].callerIn # obs[1].callerIn

FrameDescription(ip, placeholder) ==
    IF LLVMJITKnows(ip) THEN LLVMJITDescription(ip)
    ELSE IF PlatformKnows(ip) THEN PlatformDescription(ip)
    ELSE placeholder

\* C8 as stated: one description per frame, in the frames' order; the JIT's
\* when the JIT knows the address, else the platform's, else the placeholder
\* "unknown frame".
C8_Original_PlaceholderUnknownFrame ==
    dcCall.done =>
        /\ Len(dcCall.result) = Len(dcCall.callStack)
        /\ \A i \in 1..Len(dcCall.callStack) :
               dcCall.result[i] = FrameDescription(dcCall.callStack[i], "unknown frame")

\* C8, amended: one description per frame, in the frames' order; the JIT's
\* when the JIT knows the address, else the platform's, else the placeholder
\* "<unknown function>".
C8_DescribeCallStack ==
    dcCall.done =>
        /\ Len(dcCall.result) = Len(dcCall.callStack)
        /\ \A i \in 1..Len(dcCall.callStack) :
               dcCall.result[i] = FrameDescription(dcCall.callStack[i], "<unknown function>")

C8_Witness ==
    /\ dcCall.done
    /\ dcCall.callStack = <<3, 4, 2>>
    /\ dcCall.result = <<"wasm!f3+0", "<unknown function>", "host!g2+0">>

\* The number of trailing frames trapStack shares with callerStack.
SharedSuffixLen(trapStack, callerStack) ==
    LET m == IF Len(trapStack) < Len(callerStack) THEN Len(trapStack) ELSE Len(callerStack)
        shares(k) == \A j \in 1..k :
                         trapStack[Len(trapStack) - j + 1] = callerStack[Len(callerStack) - j + 1]
    IN CHOOSE k \in 0..m : shares(k) /\ \A k2 \in (k + 1)..m : ~shares(k2)

\* C9: whenever an Exception is raised for a fault, the described stack is
\* the fault-time stack with the trailing frames it shares with the caller
\* baseline removed: at least one frame is removed, and no frame of the
\* caller baseline is reported.
C9_TruncatesSharedSuffix ==
    \A t \in Threads :
        (pc[t] = "done" /\ obs[t].faultIn.type # "none" /\ outcome[t].kind = "exception") =>
            LET trapStack == obs[t].faultIn.stack
                callerStack == obs[t].callerIn
                k == SharedSuffixLen(trapStack, callerStack)
                reported == locals[Frame(t)].trapCallStack
            IN
            /\ reported = SubSeq(trapStack, 1, Len(trapStack) - k)
            /\ outcome[t].exception.callStack = describeCallStack(reported)
            /\ k >= 1
            /\ Range(reported) \cap Range(callerStack) = {}

\* C10: in a conforming invocation the slot buffer has one slot per
\* parameter plus one when a result is declared, every access is inside it,
\* the thunk finds argument i's payload in slot i, and on normal completion
\* the Result has the declared type and the payload the thunk left in the
\* result slot, or is empty with no result slot read when none is declared.
C10_SlotBuffer ==
    \A t \in Threads :
        (/\ pc[t] \notin {"idle", "checkArity"}
         /\ Conforms(parameters[t], function[t].type)) =>
            LET functionType == function[t].type
                n == Len(functionType.parameters)
                slots == n + (IF functionType.ret = "none" THEN 0 ELSE 1)
            IN
            /\ obs[t].slots = slots
            /\ DOMAIN locals[Frame(t)].thunkMemory = 0..(slots - 1)
            /\ obs[t].accessed \subseteq 0..(slots - 1)
            /\ obs[t].nativeCalls > 0 =>
                   \A i \in 0..(n - 1) : obs[t].thunkArgs[i] = parameters[t][i + 1].i64
            /\ outcome[t].kind = "returned" =>
                   IF functionType.ret # "none"
                   THEN /\ outcome[t].result.type = functionType.ret
                        /\ outcome[t].result.i64 = obs[t].thunkLeft
                   ELSE /\ outcome[t].result = EmptyResult
                        /\ ~obs[t].resultSlotRead
                        /\ n \notin obs[t].accessed

C10_Witness ==
    /\ pc[1] = "done"
    /\ outcome[1].kind = "returned"
    /\ function[1].type = FunctionType(<<"i32", "i64">>, "i64")
    /\ parameters[1] = <<Value("i32", 1), Value("i64", 0)>>
    /\ outcome[1].result = Value("i64", 1)
    /\ obs[1].accessed = {0, 1, 2}

====
